---- MODULE Spec2Model ----
(***************************************************************************)
(* Model of the HTTP transport core of the Illumio API client              *)
(* (src/http.go): apicall, with its submit / poll / fetch-result cycle,    *)
(* polling, and the string helpers the two of them rely on.                *)
(*                                                                         *)
(* Strings whose characters the code inspects (the HTTP action, the        *)
(* Retry-After header value) are sequences of one-character strings.       *)
(* Strings the code only concatenates or copies are TLA+ strings.          *)
(*                                                                         *)
(* Input assumptions (documented preconditions of apicall):                *)
(*  - apiURL is "the full endpoint being called", a URL that url.Parse     *)
(*    accepts, and the Location / result href paths sent by the PCE join   *)
(*    to the base URL into URLs that http.NewRequest accepts.  The error   *)
(*    returns of http.NewRequest (lines 81-83, 108-110, 154-156) are       *)
(*    therefore not taken.                                                 *)
(*  - the request body bytes do not influence control flow and are left    *)
(*    out of the request records.                                          *)
(***************************************************************************)
EXTENDS Integers, Sequences, FiniteSets, TLC

VARIABLES
    pc,            \* position of each apicall invocation
    args,          \* its arguments: httpAction, apiURL, pce, async
    log,           \* what it did on the network and the clock, in order
    resp,          \* apicall's local `resp`
    pollResp,      \* polling's local `pollResp` of the latest poll
    asyncResults,  \* apicall's local `asyncResults`
    pollDone,      \* per poll answered so far: did it decode to "done"
    response,      \* the APIResponse handed back to the caller
    prov,          \* which exchange each field of `response` was copied from
    err,           \* the error handed back to the caller
    env,           \* what the network did: the failure it produced, if any, the
                   \* answer to the initial request and the latest answer to the
                   \* initial request or result fetch
    fqdn           \* a host string as supplied, followed by the results of
                   \* passing it through pceSanitization again and again

vars == <<pc, args, log, resp, pollResp, asyncResults, pollDone, response, prov,
          err, env, fqdn>>

(***************************************************************************)
(* Bounds                                                                  *)
(***************************************************************************)
\* polls one invocation is followed through (the code has no such limit)
MaxPolls == 3

\* pieces a supplied host string is put together from
MaxPieces == 3

\* times a host string is passed through pceSanitization
MaxPasses == 2

Procs == {1, 2}

(***************************************************************************)
(* strings.ToUpper                                                         *)
(***************************************************************************)
Lowers == <<"a","b","c","d","e","f","g","h","i","j","k","l","m",
            "n","o","p","q","r","s","t","u","v","w","x","y","z">>
Uppers == <<"A","B","C","D","E","F","G","H","I","J","K","L","M",
            "N","O","P","Q","R","S","T","U","V","W","X","Y","Z">>

ToUpperChar(c) ==
    IF \E i \in 1..26 : Lowers[i] = c
    THEN Uppers[CHOOSE i \in 1..26 : Lowers[i] = c]
    ELSE c

ToUpper(s) == [i \in 1..Len(s) |-> ToUpperChar(s[i])]

GET    == <<"G","E","T">>
POST   == <<"P","O","S","T">>
PUT    == <<"P","U","T">>
DELETE == <<"D","E","L","E","T","E">>

\* the hypothetical check that forgets to upper-case first
ValidAction_NoUpper(httpAction) == httpAction \in {GET, POST, PUT, DELETE}

\* line 62-63: the action is upper-cased, then compared with the four verbs
ValidAction(httpAction) == ToUpper(httpAction) \in {GET, POST, PUT, DELETE}

(***************************************************************************)
(* strconv.Atoi and strconv.Itoa(...)[0:1]                                 *)
(***************************************************************************)
Digits == <<"0","1","2","3","4","5","6","7","8","9">>

IsDigit(c) == \E i \in 1..10 : Digits[i] = c

DigitVal(c) == (CHOOSE i \in 1..10 : Digits[i] = c) - 1

RECURSIVE DigitsVal(_)
DigitsVal(d) ==
    IF Len(d) = 0 THEN 0
    ELSE 10 * DigitsVal(SubSeq(d, 1, Len(d) - 1)) + DigitVal(d[Len(d)])

\* the hypothetical conversion that reads an empty string as 0
Atoi_EmptyIsZero(s) ==
    LET signed == Len(s) > 0 /\ s[1] \in {"+", "-"}
        d      == IF signed THEN Tail(s) ELSE s
        syntax == \E i \in 1..Len(d) : ~IsDigit(d[i])
    IN  IF syntax THEN [ok |-> FALSE, val |-> 0]
        ELSE [ok |-> TRUE,
              val |-> IF signed /\ s[1] = "-" THEN 0 - DigitsVal(d) ELSE DigitsVal(d)]

\* strconv.Atoi: an optional sign, then one or more decimal digits
Atoi(s) ==
    LET signed == Len(s) > 0 /\ s[1] \in {"+", "-"}
        d      == IF signed THEN Tail(s) ELSE s
        syntax == Len(d) = 0 \/ \E i \in 1..Len(d) : ~IsDigit(d[i])
    IN  IF syntax THEN [ok |-> FALSE, val |-> 0]
        ELSE [ok |-> TRUE,
              val |-> IF signed /\ s[1] = "-" THEN 0 - DigitsVal(d) ELSE DigitsVal(d)]

\* first decimal digit of a non-negative status code
RECURSIVE LeadingDigit(_)
LeadingDigit(n) == IF n < 10 THEN n ELSE LeadingDigit(n \div 10)

\* the hypothetical check that accepts 200 only
StatusFails_Only200(code) == code # 200

\* line 136: strconv.Itoa(resp.StatusCode)[0:1] != "2"
StatusFails(code) == LeadingDigit(code) # 2

(***************************************************************************)
(* Values                                                                  *)
(***************************************************************************)
Methods == { GET, <<"g","e","t">>, <<"P","o","s","t">>, <<"p","u","t">>,
             <<"d","e","l","e","t","E">>,
             <<"P","A","T","C","H">>, <<"h","e","a","d">>, <<"G","E","T","S">>,
             <<"g","e","t"," ">>, <<>> }

ApiURLs == { [host |-> "pce.example.com:8443", path |-> "/api/v1/orgs/1/workloads"] }

\* status codes a server may send ("020" parses to 20)
Codes == {20, 200, 204, 404}
PollCodes == {200, 500}

Bodies == {"payload", "error detail"}

\* Retry-After values; <<>> is what Header.Get yields for an absent header
RetryAfters == { <<>>, <<"0">>, <<"2">>, <<"-","1">>, <<"a">>, <<"1",".","5">> }
PollRetryAfters == { <<>>, <<"5">> }

Locations == {"/jobs/1", "/jobs/2"}

NoHeader == [Location |-> "", RetryAfter |-> <<>>]

NoRequest == [type |-> "none", kind |-> "none", method |-> <<>>, url |-> "",
              prefer |-> FALSE, skipVerify |-> FALSE, secs |-> 0]

\* an *http.Response that was never assigned
NoResp == [ex |-> "none", code |-> 0, body |-> "", Header |-> NoHeader,
           Request |-> NoRequest]

\* job-status documents a poll may be answered with.  kind "json" decodes,
\* kind "syntax" is not JSON at all, kind "type" is JSON with a field of
\* another type than asyncResults declares (here job_type).
PollBodies == {
    [kind |-> "json",   status |-> "pending", href |-> ""],
    [kind |-> "json",   status |-> "running", href |-> "/results/early"],
    [kind |-> "json",   status |-> "done",    href |-> "/results/1"],
    [kind |-> "json",   status |-> "done",    href |-> "/results/2"],
    [kind |-> "syntax", status |-> "done",    href |-> "/results/1"],
    [kind |-> "type",   status |-> "pending", href |-> ""],
    [kind |-> "type",   status |-> "done",    href |-> "/results/2"] }

NoPollResp == [ex |-> "none", code |-> 0,
               body |-> [kind |-> "none", status |-> "", href |-> ""],
               Header |-> NoHeader]

\* the zero value of the asyncResults struct (fields the code reads)
ZeroResults == [Status |-> "", Result |-> [Href |-> ""]]

\* the zero value of APIResponse
ZeroResponse == [RespBody |-> "", StatusCode |-> 0, Header |-> NoHeader,
                 Request |-> NoRequest]

NoProv == [RespBody |-> "none", StatusCode |-> "none", Header |-> "none"]

NoEnv == [failed |-> "none", request |-> NoRequest, first |-> NoResp,
          answer |-> NoResp]

NoArgs == [httpAction |-> <<>>, apiURL |-> [host |-> "", path |-> ""],
           pce |-> [DisableTLSChecking |-> FALSE], async |-> FALSE]

(***************************************************************************)
(* Errors                                                                  *)
(***************************************************************************)
ErrNil           == [kind |-> "nil", code |-> 0]
ErrInvalidAction == [kind |-> "invalid http action string", code |-> 0]
ErrTransport     == [kind |-> "transport", code |-> 0]
ErrAtoi          == [kind |-> "strconv.Atoi", code |-> 0]
ErrRead          == [kind |-> "read body", code |-> 0]
ErrUnmarshal     == [kind |-> "json.Unmarshal", code |-> 0]
\* line 137: "http status code of " + strconv.Itoa(response.StatusCode)
ErrStatus(code)  == [kind |-> "http status code of", code |-> code]

(***************************************************************************)
(* Requests and clock events                                               *)
(***************************************************************************)
Request(kind, method, url, prefer, skipVerify) ==
    [type |-> "request", kind |-> kind, method |-> method, url |-> url,
     prefer |-> prefer, skipVerify |-> skipVerify, secs |-> 0]

Sleep(secs) ==
    [type |-> "sleep", kind |-> "sleep", method |-> <<>>, url |-> "",
     prefer |-> FALSE, skipVerify |-> FALSE, secs |-> secs]

\* line 69: baseURL := "https://" + u.Host + "/api/v1"
BaseURL(apiURL) == "https://" \o apiURL.host \o "/api/v1"

\* the hypothetical first request that always asks for async handling
InitialRequest_AlwaysPrefer(a) ==
    Request("initial", ToUpper(a.httpAction),
            "https://" \o a.apiURL.host \o a.apiURL.path,
            TRUE, a.pce.DisableTLSChecking)

\* line 80, 86-90: the first request
InitialRequest(a) ==
    Request("initial", ToUpper(a.httpAction),
            "https://" \o a.apiURL.host \o a.apiURL.path,
            a.async, a.pce.DisableTLSChecking)

\* the hypothetical poll that takes Location for a complete URL
PollRequest_Absolute(baseURL, origResp) ==
    Request("poll", GET, origResp.Header.Location, FALSE, TRUE)

\* the hypothetical poll sent with a default, verifying client
PollRequest_Verifying(baseURL, origResp) ==
    Request("poll", GET, baseURL \o origResp.Header.Location, FALSE, FALSE)

\* line 149-153, 158-160: the poll request
PollRequest(baseURL, origResp) ==
    Request("poll", GET, baseURL \o origResp.Header.Location, FALSE, TRUE)

\* line 107-114: the result fetch, sent with apicall's client
FinalRequest(a, results) ==
    Request("fetch", GET, BaseURL(a.apiURL) \o results.Result.Href,
            FALSE, a.pce.DisableTLSChecking)

(***************************************************************************)
(* json.Unmarshal into asyncResults                                        *)
(***************************************************************************)
\* a syntax error leaves the struct untouched; a type error is reported
\* after the remaining fields were filled in
Unmarshal(body) ==
    CASE body.kind = "json"   -> [results |-> [Status |-> body.status,
                                               Result |-> [Href |-> body.href]],
                                  err |-> ErrNil]
      [] body.kind = "type"   -> [results |-> [Status |-> body.status,
                                               Result |-> [Href |-> body.href]],
                                  err |-> ErrUnmarshal]
      [] OTHER                -> [results |-> ZeroResults, err |-> ErrUnmarshal]

\* the hypothetical polling that reports the decode error
PollingErr_Reported(readErr, unmarshalErr) == unmarshalErr

\* line 183-185: json.Unmarshal's error is dropped, `err` still holds the
\* (nil) error of ioutil.ReadAll
PollingErr(readErr, unmarshalErr) == readErr

\* the hypothetical loop that hands polling the latest poll response
PollingArg_Latest(initial, latest) ==
    IF latest.ex = "none" THEN initial
    ELSE [initial EXCEPT !.Header = latest.Header]

\* line 101: polling(baseURL, pce, resp); resp is the initial response on
\* every iteration
PollingArg(initial, latest) == initial

\* the hypothetical loop that stops on any answered poll
LoopCondition_Once(results) == FALSE

\* the hypothetical loop that only goes on while the job is "pending"
LoopCondition_WhilePending(results) == results.Status = "pending"

\* the hypothetical loop that never stops
LoopCondition_Always(results) == TRUE

\* line 100: for asyncResults.Status != "done"
LoopCondition(results) == results.Status # "done"

(***************************************************************************)
(* Initial state                                                           *)
(***************************************************************************)
InitProc(active) ==
    /\ pc = [p \in Procs |-> IF p \in active THEN "idle" ELSE "off"]
    /\ args = [p \in Procs |-> NoArgs]
    /\ log = [p \in Procs |-> <<>>]
    /\ resp = [p \in Procs |-> NoResp]
    /\ pollResp = [p \in Procs |-> NoPollResp]
    /\ asyncResults = [p \in Procs |-> ZeroResults]
    /\ pollDone = [p \in Procs |-> <<>>]
    /\ response = [p \in Procs |-> ZeroResponse]
    /\ prov = [p \in Procs |-> NoProv]
    /\ err = [p \in Procs |-> ErrNil]
    /\ env = [p \in Procs |-> NoEnv]

Init == InitProc({1}) /\ fqdn = <<>>

\* two invocations running at the same time
InitConc == InitProc({1, 2}) /\ fqdn = <<>>

\* invocation 2 running alone, for the check of termination
InitFair == InitProc({2}) /\ fqdn = <<>>

\* When invocation 2 takes part, the arguments and the server's answers are
\* drawn from the smaller sets below, which keep one value of every kind
\* that decides a branch of apicall or polling.
Reduced == pc[2] # "off"

Draw(full, small) == IF Reduced THEN small ELSE full

ConcMethods      == { <<"g","e","t">> }
ConcApiURLs      == { [host |-> "pce.example.com:8443", path |-> "/api/v1/orgs/1/workloads"],
                      [host |-> "pce2.example.com:8443", path |-> "/api/v1/orgs/2/labels"] }
ConcTLS          == { FALSE }
ConcCodes        == { 200, 404 }
ConcBodies       == { "payload" }
ConcLocations    == { "/jobs/1", "/jobs/2" }
ConcRetryAfters  == { <<>>, <<"0">> }
ConcPollCodes    == { 200 }
ConcPollRetryAfters == { <<>> }
ConcPollBodies   == {
    [kind |-> "json",   status |-> "pending", href |-> ""],
    [kind |-> "json",   status |-> "done",    href |-> "/results/1"],
    [kind |-> "json",   status |-> "done",    href |-> "/results/2"] }

\* the hypothetical asyncResults kept in one package-level variable, which
\* the invocation that started first also writes
ResultsOf_Shared(p) == asyncResults[1]

\* line 59: var asyncResults asyncResults, local to each invocation
ResultsOf(p) == asyncResults[p]

(***************************************************************************)
(* apicall                                                                 *)
(***************************************************************************)
\* return response, e
Return(p, e) ==
    /\ pc' = [pc EXCEPT ![p] = "returned"]
    /\ err' = [err EXCEPT ![p] = e]

\* the hypothetical caller of client.Do that tries the exchange again
OnDoError_Retry(at) == at

\* lines 94-96, 118-120, 172-174 with 102-104: a failed client.Do ends
\* the call
OnDoError(at) == "returned"

\* client.Do returned an error for request r
DoFails(p, r) ==
    /\ pc' = [pc EXCEPT ![p] = OnDoError(pc[p])]
    /\ err' = [err EXCEPT ![p] = ErrTransport]
    /\ env' = [env EXCEPT ![p].failed = "transport", ![p].request = r]

\* the hypothetical dispatch that sends every call through the job protocol
AfterInitial_AlwaysAsync(async) == "loop"

\* line 99: if async == true
AfterInitial(async) == IF async THEN "loop" ELSE "process"

\* lines 55-90: entry, validation of the action, construction of the request
Call(p) ==
    /\ pc[p] = "idle"
    /\ \E m \in Draw(Methods, ConcMethods), u \in Draw(ApiURLs, ConcApiURLs),
          tls \in Draw(BOOLEAN, ConcTLS), a \in BOOLEAN :
        /\ args' = [args EXCEPT ![p] =
                      [httpAction |-> m, apiURL |-> u,
                       pce |-> [DisableTLSChecking |-> tls], async |-> a]]
        /\ IF ~ValidAction(m)
           THEN Return(p, ErrInvalidAction)
           ELSE /\ pc' = [pc EXCEPT ![p] = "do"]
                /\ err' = err
    /\ UNCHANGED <<log, resp, pollResp, asyncResults, pollDone, response, prov, env,
                   fqdn>>

\* lines 92-99: client.Do(req)
DoInitial(p) ==
    /\ pc[p] = "do"
    /\ log' = [log EXCEPT ![p] = Append(@, InitialRequest(args[p]))]
    /\ \/ /\ DoFails(p, InitialRequest(args[p]))
          /\ resp' = resp
       \/ \E c \in Draw(Codes, ConcCodes), b \in Draw(Bodies, ConcBodies),
             l \in Draw(Locations, ConcLocations),
             ra \in Draw(RetryAfters, ConcRetryAfters) :
            LET r == [ex |-> "initial", code |-> c, body |-> b,
                      Header |-> [Location |-> l, RetryAfter |-> ra],
                      Request |-> InitialRequest(args[p])]
            IN  /\ resp' = [resp EXCEPT ![p] = r]
                /\ env' = [env EXCEPT ![p].first = r, ![p].answer = r]
                /\ pc' = [pc EXCEPT ![p] = AfterInitial(args[p].async)]
                /\ err' = err
    /\ UNCHANGED <<args, pollResp, asyncResults, pollDone, response, prov, fqdn>>

\* lines 100-105 with polling, lines 144-186: one iteration of the loop
Polling(p) ==
    /\ pc[p] = "loop"
    /\ Len(pollDone[p]) < MaxPolls
    /\ LET origResp == PollingArg(resp[p], pollResp[p])
           pollReq  == PollRequest(BaseURL(args[p].apiURL), origResp)
           wait     == Atoi(origResp.Header.RetryAfter)
       IN  IF ~wait.ok
           THEN \* line 163-166
                /\ Return(p, ErrAtoi)
                /\ asyncResults' = [asyncResults EXCEPT ![p] = ZeroResults]
                /\ UNCHANGED <<log, pollResp, pollDone, env>>
           ELSE /\ log' = [log EXCEPT ![p] = @ \o <<Sleep(wait.val), pollReq>>]
                /\ \/ \* line 171-174: client.Do fails
                      /\ DoFails(p, pollReq)
                      /\ asyncResults' = [asyncResults EXCEPT ![p] = ZeroResults]
                      /\ UNCHANGED <<pollResp, pollDone>>
                   \/ \* line 177-180: ioutil.ReadAll fails
                      \E c \in Draw(PollCodes, ConcPollCodes),
                         ra \in Draw(PollRetryAfters, ConcPollRetryAfters) :
                        /\ pollResp' = [pollResp EXCEPT ![p] =
                              [ex |-> "poll", code |-> c,
                               body |-> [kind |-> "unread", status |-> "", href |-> ""],
                               Header |-> [Location |-> "", RetryAfter |-> ra]]]
                        /\ Return(p, ErrRead)
                        /\ env' = [env EXCEPT ![p].failed = "read", ![p].request = pollReq]
                        /\ asyncResults' = [asyncResults EXCEPT ![p] = ZeroResults]
                        /\ UNCHANGED pollDone
                   \/ \E c \in Draw(PollCodes, ConcPollCodes),
                         b \in Draw(PollBodies, ConcPollBodies),
                         ra \in Draw(PollRetryAfters, ConcPollRetryAfters) :
                        LET u == Unmarshal(b)
                            e == PollingErr(ErrNil, u.err)
                        IN  /\ pollResp' = [pollResp EXCEPT ![p] =
                                  [ex |-> "poll", code |-> c, body |-> b,
                                   Header |-> [Location |-> "", RetryAfter |-> ra]]]
                            /\ pollDone' = [pollDone EXCEPT ![p] =
                                  Append(@, u.results.Status = "done")]
                            /\ asyncResults' = [asyncResults EXCEPT ![p] = u.results]
                            /\ env' = env
                            /\ IF e # ErrNil
                               THEN Return(p, e)
                               ELSE /\ pc' = [pc EXCEPT ![p] =
                                          IF LoopCondition(u.results) THEN "loop" ELSE "final"]
                                    /\ err' = err
    /\ UNCHANGED <<args, resp, response, prov, fqdn>>

\* the hypothetical fetch whose answer never reaches `resp`
FinalResp_Shadowed(old, new) == old

\* line 117: resp, err = client.Do(finalReq) overwrites apicall's resp
FinalResp(old, new) == new

\* lines 107-120: the result fetch
Final(p) ==
    /\ pc[p] = "final"
    /\ LET finalReq == FinalRequest(args[p], ResultsOf(p))
       IN  /\ log' = [log EXCEPT ![p] = Append(@, finalReq)]
           /\ \/ /\ DoFails(p, finalReq)
                 /\ resp' = resp
              \/ \E c \in Draw(Codes, ConcCodes), b \in Draw(Bodies, ConcBodies) :
                   LET r == [ex |-> "fetch", code |-> c, body |-> b,
                             Header |-> NoHeader, Request |-> finalReq]
                   IN
                   /\ resp' = [resp EXCEPT ![p] = FinalResp(@, r)]
                   /\ env' = [env EXCEPT ![p].answer = r]
                   /\ pc' = [pc EXCEPT ![p] = "process"]
                   /\ err' = err
    /\ UNCHANGED <<args, pollResp, asyncResults, pollDone, response, prov, fqdn>>

\* the hypothetical error return that first copies what was received
EarlyResponse_Populated(r, received) ==
    [RespBody |-> "", StatusCode |-> received.code, Header |-> received.Header,
     Request |-> received.Request]

\* line 126: return response, err; response is still as declared at line 57
EarlyResponse(r, received) == r

\* lines 123-142: read the body, fill the APIResponse, check the status
Process(p) ==
    /\ pc[p] = "process"
    /\ \/ \* line 124-127: ioutil.ReadAll fails, response is still empty
          /\ Return(p, ErrRead)
          /\ env' = [env EXCEPT ![p].failed = "read", ![p].request = resp[p].Request]
          /\ response' = [response EXCEPT ![p] = EarlyResponse(@, resp[p])]
          /\ prov' = prov
       \/ /\ response' = [response EXCEPT ![p] =
                            [RespBody |-> resp[p].body,
                             StatusCode |-> resp[p].code,
                             Header |-> resp[p].Header,
                             Request |-> resp[p].Request]]
          /\ prov' = [prov EXCEPT ![p] =
                        [RespBody |-> resp[p].ex, StatusCode |-> resp[p].ex,
                         Header |-> resp[p].ex]]
          /\ env' = env
          /\ IF StatusFails(resp[p].code)
             THEN Return(p, ErrStatus(resp[p].code))
             ELSE Return(p, ErrNil)
    /\ UNCHANGED <<args, log, resp, pollResp, asyncResults, pollDone, fqdn>>

Next ==
    \/ \E p \in Procs : Call(p)
    \/ \E p \in Procs : DoInitial(p)
    \/ \E p \in Procs : Polling(p)
    \/ \E p \in Procs : Final(p)
    \/ \E p \in Procs : Process(p)

Spec == Init /\ [][Next]_vars

\* two concurrent invocations, interleaved step by step
SpecConc == InitConc /\ [][Next]_vars

\* apicall is straight-line code on one goroutine: every blocking call of it
\* (client.Do at lines 93, 117 and 171, ioutil.ReadAll at 124 and 177,
\* time.Sleep at 168) comes back, with an answer or with an error, and the
\* next statement runs
Fairness == WF_vars(Next)

SpecFair == InitFair /\ [][Next]_vars /\ Fairness

(***************************************************************************)
(* pceSanitization                                                         *)
(***************************************************************************)
HTTPS == <<"h","t","t","p","s",":","/","/">>

\* strings.HasPrefix, strings.HasSuffix
HasPrefix(s, prefix) ==
    Len(s) >= Len(prefix) /\ SubSeq(s, 1, Len(prefix)) = prefix

HasSuffix(s, suffix) ==
    Len(s) >= Len(suffix) /\ SubSeq(s, Len(s) - Len(suffix) + 1, Len(s)) = suffix

\* strings.Replace(s, old, "", -1): every non-overlapping occurrence of old,
\* found from left to right, is dropped
RECURSIVE RemoveAll(_, _)
RemoveAll(s, old) ==
    IF Len(s) < Len(old) THEN s
    ELSE IF HasPrefix(s, old)
         THEN RemoveAll(SubSeq(s, Len(old) + 1, Len(s)), old)
         ELSE <<s[1]>> \o RemoveAll(Tail(s), old)

\* the hypothetical helper that leaves a trailing slash in place
pceSanitization_KeepSlash(pceFQDN) ==
    IF HasPrefix(pceFQDN, HTTPS) THEN RemoveAll(pceFQDN, HTTPS) ELSE pceFQDN

\* lines 189-203
pceSanitization(pceFQDN) ==
    LET trimmed == IF HasSuffix(pceFQDN, <<"/">>)
                   THEN SubSeq(pceFQDN, 1, Len(pceFQDN) - 1)
                   ELSE pceFQDN
    IN  IF HasPrefix(trimmed, HTTPS) THEN RemoveAll(trimmed, HTTPS) ELSE trimmed

\* host strings a caller may supply: up to MaxPieces of these pieces in a row
Pieces == { HTTPS, <<"/">>, <<"a">>, <<"h","t">>, <<"t","p","s",":","/","/">> }

RECURSIVE FQDNs(_)
FQDNs(n) ==
    IF n = 0 THEN { <<>> }
    ELSE LET shorter == FQDNs(n - 1)
         IN  shorter \cup { x \o y : x \in shorter, y \in Pieces }

InitSan ==
    /\ InitProc({})
    /\ \E s \in FQDNs(MaxPieces) : fqdn = <<s>>

\* pceFQDN = pceSanitization(pceFQDN)
Sanitize ==
    /\ Len(fqdn) >= 1
    /\ Len(fqdn) <= MaxPasses
    /\ fqdn' = Append(fqdn, pceSanitization(fqdn[Len(fqdn)]))
    /\ UNCHANGED <<pc, args, log, resp, pollResp, asyncResults, pollDone, response,
                   prov, err, env>>

NextSan == Sanitize

SpecSan == InitSan /\ [][NextSan]_vars

(***************************************************************************)
(* Vocabulary of the properties                                            *)
(***************************************************************************)
Started(p) == pc[p] \notin {"off", "idle"}

Returned(p) == pc[p] = "returned"

\* positions in the log of the requests of one kind
RequestsOf(p, kind) ==
    {i \in 1..Len(log[p]) : log[p][i].type = "request" /\ log[p][i].kind = kind}

NRequests(p) == Cardinality({i \in 1..Len(log[p]) : log[p][i].type = "request"})
NPolls(p)    == Cardinality(RequestsOf(p, "poll"))
NFetches(p)  == Cardinality(RequestsOf(p, "fetch"))

\* some poll answered so far decoded to "done"
SomePollDone(p) == \E i \in 1..Len(pollDone[p]) : pollDone[p][i]

LastPollDone(p) == Len(pollDone[p]) > 0 /\ pollDone[p][Len(pollDone[p])]

\* [+-]?[0-9]+
LooksLikeInteger(s) ==
    /\ Len(s) >= 1
    /\ LET d == IF s[1] \in {"+", "-"} THEN Tail(s) ELSE s
       IN  /\ Len(d) >= 1
           /\ \A i \in 1..Len(d) :
                 d[i] \in {"0","1","2","3","4","5","6","7","8","9"}

\* status codes up to 999 whose decimal form starts with 2
LeadsWith2(code) == code = 2 \/ code \in 20..29 \/ code \in 200..299

Is2xx(code) == code \in 200..299

\* same letters, upper or lower case
CaseVariant(m, v) ==
    /\ Len(m) = Len(v)
    /\ \A i \in 1..Len(v) :
          \E k \in 1..26 : Uppers[k] = v[i] /\ m[i] \in {Uppers[k], Lowers[k]}

\* the log of a completed job: the submission, k waits each followed by a
\* poll, one result fetch
JobLog(p, k) ==
    /\ Len(log[p]) = 2 * k + 2
    /\ log[p][1].type = "request" /\ log[p][1].kind = "initial"
    /\ \A i \in 1..k : /\ log[p][2 * i].type = "sleep"
                        /\ log[p][2 * i + 1].type = "request"
                        /\ log[p][2 * i + 1].kind = "poll"
    /\ log[p][2 * k + 2].type = "request" /\ log[p][2 * k + 2].kind = "fetch"

(***************************************************************************)
(* C1.  In an async call whose initial response carries a numeric          *)
(* Retry-After and in which no exchange fails, polls are issued until one  *)
(* reports "done" and then exactly one result fetch is issued: a result    *)
(* fetch is only ever issued after a poll that reported "done", no poll    *)
(* follows a poll that reported "done", and when the k-th poll is the one  *)
(* reporting "done" the call returns having issued exactly k polls and     *)
(* then one fetch, with the fetch's status and body, and with no error     *)
(* when that status is 2xx.                                                *)
(***************************************************************************)
C1_PollsThenOneFetch ==
    \A p \in Procs :
        (/\ Started(p) /\ args[p].async
         /\ env[p].failed = "none"
         /\ env[p].first.ex = "initial"
         /\ LooksLikeInteger(env[p].first.Header.RetryAfter))
        =>
        /\ NFetches(p) <= 1
        /\ \A i \in RequestsOf(p, "fetch"), j \in RequestsOf(p, "poll") : j < i
        /\ NFetches(p) = 1 => LastPollDone(p)
        /\ \A i \in 1..(Len(pollDone[p]) - 1) : ~pollDone[p][i]
        /\ NPolls(p) = Len(pollDone[p])
        /\ pc[p] = "loop" => ~SomePollDone(p)
        /\ LastPollDone(p) => pc[p] \in {"final", "process", "returned"}
        /\ (Returned(p) /\ LastPollDone(p)) =>
              /\ JobLog(p, Len(pollDone[p]))
              /\ env[p].answer.ex = "fetch"
              /\ response[p].StatusCode = env[p].answer.code
              /\ response[p].RespBody = env[p].answer.body
              /\ Is2xx(env[p].answer.code) => err[p] = ErrNil

\* the spec's example: "pending", then "done", then a 200 result
C1_Witness ==
    /\ Returned(1) /\ args[1].async /\ env[1].failed = "none"
    /\ pollDone[1] = <<FALSE, TRUE>>
    /\ NPolls(1) = 2 /\ NFetches(1) = 1
    /\ response[1].StatusCode = 200 /\ err[1] = ErrNil

(***************************************************************************)
(* C2.  A returned Response with a status code set has its StatusCode,     *)
(* RespBody and Header copied from one and the same exchange, which is the *)
(* result fetch for an async call (never the submission acknowledgment or  *)
(* a poll) and the only exchange for a sync call.                          *)
(***************************************************************************)
C2_OneExchange ==
    \A p \in Procs :
        response[p].StatusCode # 0 =>
            /\ prov[p].StatusCode = prov[p].RespBody
            /\ prov[p].StatusCode = prov[p].Header
            /\ prov[p].StatusCode = IF args[p].async THEN "fetch" ELSE "initial"
            /\ env[p].answer.ex = prov[p].StatusCode
            /\ response[p].StatusCode = env[p].answer.code
            /\ response[p].RespBody = env[p].answer.body
            /\ response[p].Header = env[p].answer.Header

\* an async call returned a Response that differs from the acknowledgment
C2_Witness ==
    /\ Returned(1) /\ args[1].async
    /\ response[1].StatusCode # 0
    /\ prov[1].StatusCode = "fetch"
    /\ response[1].StatusCode # env[1].first.code
    /\ response[1].RespBody # env[1].first.body

(***************************************************************************)
(* C3.  When the final response (the only one of a sync call, the result   *)
(* fetch of an async call) was received and read, apicall returns an       *)
(* error exactly when the status code's leading digit is not 2; the error  *)
(* names the status code, and the Response returned with it holds that     *)
(* response's status, body and headers.                                    *)
(***************************************************************************)
FinalObtained(p) ==
    /\ Returned(p)
    /\ env[p].failed = "none"
    /\ env[p].answer.ex = IF args[p].async THEN "fetch" ELSE "initial"

C3_StatusError ==
    \A p \in Procs :
        FinalObtained(p) =>
            /\ err[p] # ErrNil <=> ~LeadsWith2(env[p].answer.code)
            /\ err[p] # ErrNil =>
                  /\ err[p] = ErrStatus(env[p].answer.code)
                  /\ response[p].StatusCode = env[p].answer.code
                  /\ response[p].RespBody = env[p].answer.body
                  /\ response[p].Header = env[p].answer.Header

\* the spec's example: a sync call answered 404 with an error payload
C3_Witness ==
    /\ FinalObtained(1) /\ ~args[1].async
    /\ err[1] = ErrStatus(404)
    /\ response[1].StatusCode = 404
    /\ response[1].RespBody = "error detail"

(***************************************************************************)
(* C4.  A sync call with a valid action issues exactly one HTTP request,   *)
(* never a poll or a result fetch, and when the server's answer has a 2xx  *)
(* status the Response carries the server's body and status and the error  *)
(* is nil.                                                                 *)
(***************************************************************************)
C4_SyncCall ==
    \A p \in Procs :
        (Started(p) /\ ~args[p].async
         /\ \E v \in {GET, POST, PUT, DELETE} : CaseVariant(args[p].httpAction, v))
        =>
        /\ NPolls(p) = 0 /\ NFetches(p) = 0
        /\ \A i \in 1..Len(log[p]) : log[p][i].type = "request"
        /\ Len(log[p]) = IF pc[p] = "do" THEN 0 ELSE 1
        /\ pc[p] \in {"do", "process", "returned"}
        /\ (Returned(p) /\ env[p].failed = "none" /\ Is2xx(env[p].answer.code)) =>
              /\ response[p].RespBody = env[p].answer.body
              /\ response[p].StatusCode = env[p].answer.code
              /\ err[p] = ErrNil

\* a sync call answered 204
C4_Witness ==
    /\ Returned(1) /\ ~args[1].async
    /\ Len(log[1]) = 1
    /\ env[1].answer.code = 204
    /\ response[1].RespBody = "payload" /\ err[1] = ErrNil

(***************************************************************************)
(* C5.  An action that is no case variant of GET, POST, PUT or DELETE      *)
(* makes apicall return the invalid-action error without issuing any HTTP  *)
(* request, sync or async; every case variant of the four is accepted.     *)
(***************************************************************************)
C5_InvalidAction ==
    \A p \in Procs :
        Started(p) =>
            IF \E v \in {GET, POST, PUT, DELETE} : CaseVariant(args[p].httpAction, v)
            THEN err[p] # ErrInvalidAction
            ELSE /\ Returned(p)
                 /\ err[p] = ErrInvalidAction
                 /\ log[p] = <<>>
                 /\ response[p] = ZeroResponse

\* an async call with action "GETS" was turned away
C5_Witness ==
    /\ Returned(1) /\ args[1].async
    /\ args[1].httpAction = <<"G","E","T","S">>
    /\ err[1] = ErrInvalidAction /\ log[1] = <<>>

(***************************************************************************)
(* C6 as stated.  In an async call, once a poll response that does not     *)
(* report "done" omits Retry-After, apicall has failed with the            *)
(* missing-Retry-After error (and so issues no further request).           *)
(***************************************************************************)
PollOmitsRetryAfter(p) ==
    /\ args[p].async
    /\ env[p].failed = "none"
    /\ pollResp[p].ex = "poll"
    /\ ~LastPollDone(p)
    /\ pollResp[p].Header.RetryAfter = <<>>

C6_InitialHeaderDecides ==
    \A p \in Procs :
        /\ err[p] = ErrAtoi =>
              /\ Returned(p)
              /\ ~LooksLikeInteger(env[p].first.Header.RetryAfter)
              /\ NPolls(p) = 0 /\ NFetches(p) = 0 /\ Len(log[p]) = 1
        /\ PollOmitsRetryAfter(p) =>
              /\ pc[p] = "loop" /\ err[p] = ErrNil
              /\ LooksLikeInteger(env[p].first.Header.RetryAfter)

C6_NextIsPoll ==
    \A p \in Procs :
        (PollOmitsRetryAfter(p) /\ log'[p] # log[p]) =>
            /\ Len(log'[p]) = Len(log[p]) + 2
            /\ SubSeq(log'[p], 1, Len(log[p])) = log[p]
            /\ log'[p][Len(log[p]) + 1].type = "sleep"
            /\ log'[p][Len(log[p]) + 2].type = "request"
            /\ log'[p][Len(log[p]) + 2].kind = "poll"

C7_NoUsableRetryAfter ==
    \A p \in Procs :
        (/\ Started(p) /\ args[p].async
         /\ env[p].first.ex = "initial"
         /\ ~LooksLikeInteger(env[p].first.Header.RetryAfter))
        =>
        /\ pc[p] \in {"loop", "returned"}
        /\ NPolls(p) = 0 /\ NFetches(p) = 0 /\ NRequests(p) = 1
        /\ \A i \in 1..Len(log[p]) : log[p][i].type # "sleep"
        /\ pc[p] = "loop" => err[p] = ErrNil /\ ENABLED Polling(p)
        /\ Returned(p) => err[p] = ErrAtoi /\ response[p] = ZeroResponse

\* the server answered 200 with a body and no Retry-After
C7_Witness ==
    /\ Returned(1) /\ args[1].async
    /\ env[1].first.code = 200
    /\ env[1].first.Header.RetryAfter = <<>>
    /\ err[1] = ErrAtoi /\ NRequests(1) = 1

(***************************************************************************)
(* C8.  When an exchange fails (client.Do or the reading of the body       *)
(* returns an error) the call is over: the error is what the caller gets,  *)
(* and the request that failed is the last entry of the log, so it was     *)
(* not sent again and nothing was sent after it.                           *)
(***************************************************************************)
C8_FailureAborts ==
    \A p \in Procs :
        env[p].failed # "none" =>
            /\ Returned(p)
            /\ err[p] = IF env[p].failed = "transport" THEN ErrTransport ELSE ErrRead
            /\ Len(log[p]) > 0
            /\ log[p][Len(log[p])] = env[p].request
            /\ response[p] = ZeroResponse

\* the second poll failed in transport
C8_Witness ==
    /\ env[1].failed = "transport"
    /\ env[1].request.kind = "poll"
    /\ NPolls(1) = 2
    /\ Returned(1) /\ err[1] = ErrTransport

(***************************************************************************)
(* C9 as stated.  Once a poll response's body failed to decode as a        *)
(* job-status document, apicall has returned the decode error and issues   *)
(* no further poll.                                                        *)
(***************************************************************************)
C9_DecodeErrorAborts ==
    \A p \in Procs :
        (/\ env[p].failed = "none"
         /\ pollResp[p].ex = "poll"
         /\ pollResp[p].body.kind \in {"syntax", "type"})
        => Returned(p) /\ err[p] = ErrUnmarshal

(***************************************************************************)
(* C10 as stated.  In an async call in which no poll has reported "done"   *)
(* and no exchange has failed, apicall has not returned and has issued no  *)
(* result fetch.                                                           *)
(***************************************************************************)
NeverDone(p) ==
    /\ Started(p) /\ args[p].async
    /\ env[p].first.ex = "initial"
    /\ env[p].failed = "none"
    /\ ~SomePollDone(p)

C10_Original ==
    \A p \in Procs :
        NeverDone(p) => ~Returned(p) /\ NFetches(p) = 0

(***************************************************************************)
(* C10 amended.  In an async call whose initial response carries an        *)
(* integer Retry-After, as long as no poll has reported "done" and no      *)
(* exchange has failed, apicall has not returned, has issued no result     *)
(* fetch, and can always issue one more poll: there is no attempt count,   *)
(* deadline or cancellation.                                               *)
(***************************************************************************)
C10_PollsForever ==
    \A p \in Procs :
        (NeverDone(p) /\ LooksLikeInteger(env[p].first.Header.RetryAfter)) =>
            /\ pc[p] = "loop"
            /\ err[p] = ErrNil
            /\ NFetches(p) = 0
            /\ NPolls(p) = Len(pollDone[p])
            /\ Len(pollDone[p]) < MaxPolls => ENABLED Polling(p)

\* the call has polled as often as it is followed, and is still polling
C10_Witness ==
    /\ NeverDone(1)
    /\ NPolls(1) = MaxPolls
    /\ pc[1] = "loop"

(***************************************************************************)
(* C11 as stated.  Whenever apicall has returned an error after at least   *)
(* one HTTP response was received, the returned Response is not empty: it  *)
(* carries the status code of a received response.                         *)
(***************************************************************************)
C11_Original ==
    \A p \in Procs :
        (Returned(p) /\ err[p] # ErrNil /\ env[p].first.ex = "initial") =>
            /\ response[p] # ZeroResponse
            /\ response[p].StatusCode # 0

(***************************************************************************)
(* C11 amended.  The Response returned with an error is populated only for *)
(* the HTTP-status error, where it carries the status code, headers and    *)
(* body of the final response; on every other error return (a failed or    *)
(* aborted poll, a missing Retry-After, a failed result fetch, a body read *)
(* failure) the returned Response is empty, whatever was received before.  *)
(***************************************************************************)
C11_PopulatedOnStatusErrorOnly ==
    \A p \in Procs :
        (Returned(p) /\ err[p] # ErrNil) =>
            IF FinalObtained(p)
            THEN /\ err[p] = ErrStatus(env[p].answer.code)
                 /\ response[p].StatusCode = env[p].answer.code
                 /\ response[p].RespBody = env[p].answer.body
                 /\ response[p].Header = env[p].answer.Header
                 /\ response[p].Request = env[p].answer.Request
            ELSE /\ err[p] \in {ErrInvalidAction, ErrTransport, ErrAtoi, ErrRead}
                 /\ response[p] = ZeroResponse
                 /\ prov[p] = NoProv

\* the body of a received result could not be read: the Response is empty
C11_Witness ==
    /\ Returned(1) /\ args[1].async
    /\ env[1].failed = "read"
    /\ env[1].request.kind = "fetch"
    /\ env[1].answer.ex = "fetch" /\ env[1].answer.code = 200
    /\ err[1] = ErrRead
    /\ response[1] = ZeroResponse

(***************************************************************************)
(* C12.  Within one call, the initial request and the result fetch skip    *)
(* TLS certificate verification exactly when the endpoint's                *)
(* DisableTLSChecking flag is set; every poll request skips it whatever    *)
(* the flag says.                                                          *)
(***************************************************************************)
C12_TLSPolicy ==
    \A p \in Procs :
        \A i \in 1..Len(log[p]) :
            log[p][i].type = "request" =>
                /\ log[p][i].kind \in {"initial", "fetch"} =>
                      (log[p][i].skipVerify <=> args[p].pce.DisableTLSChecking)
                /\ log[p][i].kind = "poll" => log[p][i].skipVerify

\* a completed job on an endpoint with verification on: the polls skipped it
\* all the same
C12_Witness ==
    /\ Returned(1) /\ args[1].async
    /\ ~args[1].pce.DisableTLSChecking
    /\ JobLog(1, 2)
    /\ ~log[1][1].skipVerify
    /\ log[1][3].skipVerify /\ log[1][5].skipVerify
    /\ ~log[1][6].skipVerify

(***************************************************************************)
(* C13.  The initial request carries Prefer: respond-async exactly when    *)
(* async is true; poll requests and the result fetch never carry it.       *)
(***************************************************************************)
C13_PreferHeader ==
    \A p \in Procs :
        \A i \in 1..Len(log[p]) :
            log[p][i].type = "request" =>
                /\ log[p][i].kind = "initial" => (log[p][i].prefer <=> args[p].async)
                /\ log[p][i].kind \in {"poll", "fetch"} => ~log[p][i].prefer

\* a completed job: Prefer on the submission only
C13_Witness ==
    /\ Returned(1) /\ args[1].async
    /\ JobLog(1, 1)
    /\ log[1][1].prefer
    /\ ~log[1][3].prefer /\ ~log[1][4].prefer

(***************************************************************************)
(* C14.  Two concurrent invocations share no state.  In every interleaving *)
(* each step changes the state of one invocation only; each invocation     *)
(* polls the job named by the Location it was itself answered with and     *)
(* fetches the result named by the last poll answer it received itself,    *)
(* on its own endpoint; and what it returns is the Response and error that *)
(* its own arguments and the answers it received determine when it runs    *)
(* alone.                                                                  *)
(***************************************************************************)
Local(p) == <<pc[p], args[p], log[p], resp[p], pollResp[p], asyncResults[p],
              pollDone[p], response[p], prov[p], err[p], env[p]>>

\* the address of the job and of the result an invocation was told about
OwnJobURL(p) ==
    "https://" \o args[p].apiURL.host \o "/api/v1" \o env[p].first.Header.Location

OwnResultURL(p) ==
    "https://" \o args[p].apiURL.host \o "/api/v1" \o pollResp[p].body.href

\* what the invocation returns when it runs alone with these arguments and
\* is given these answers
AloneOutcome(a, e) ==
    IF ~(\E v \in {GET, POST, PUT, DELETE} : CaseVariant(a.httpAction, v))
        THEN [response |-> ZeroResponse, err |-> ErrInvalidAction]
    ELSE IF e.failed = "transport"
        THEN [response |-> ZeroResponse, err |-> ErrTransport]
    ELSE IF e.failed = "read"
        THEN [response |-> ZeroResponse, err |-> ErrRead]
    ELSE IF a.async /\ ~LooksLikeInteger(e.first.Header.RetryAfter)
        THEN [response |-> ZeroResponse, err |-> ErrAtoi]
    ELSE [response |-> [RespBody |-> e.answer.body, StatusCode |-> e.answer.code,
                        Header |-> e.answer.Header, Request |-> e.answer.Request],
          err |-> IF LeadsWith2(e.answer.code) THEN ErrNil
                  ELSE ErrStatus(e.answer.code)]

C14_OwnJobOwnResult ==
    \A p \in Procs :
        /\ \A i \in RequestsOf(p, "poll") : log[p][i].url = OwnJobURL(p)
        /\ \A i \in RequestsOf(p, "fetch") :
              /\ log[p][i].url = OwnResultURL(p)
              /\ LastPollDone(p)
        /\ Returned(p) =>
              /\ response[p] = AloneOutcome(args[p], env[p]).response
              /\ err[p] = AloneOutcome(args[p], env[p]).err
              /\ (args[p].async /\ response[p] # ZeroResponse) =>
                    response[p].Request.url = OwnResultURL(p)

C14_OneInvocationPerStep ==
    \E p \in Procs : \A q \in Procs \ {p} : Local(q)' = Local(q)

C14_Independent == []C14_OwnJobOwnResult /\ [][C14_OneInvocationPerStep]_vars

\* both invocations completed jobs on different endpoints, with different
\* results, after different numbers of polls
C14_Witness ==
    /\ Returned(1) /\ Returned(2)
    /\ args[1].async /\ args[2].async
    /\ args[1].apiURL # args[2].apiURL
    /\ JobLog(1, 2) /\ JobLog(2, 1)
    /\ pollResp[1].body.href # pollResp[2].body.href
    /\ response[1].StatusCode = 200 /\ response[2].StatusCode = 404
    /\ err[1] = ErrNil /\ err[2] = ErrStatus(404)

(***************************************************************************)
(* C15 as stated.  pceSanitization is idempotent: sanitizing a sanitized   *)
(* host string changes nothing.                                            *)
(***************************************************************************)
C15_Original ==
    Len(fqdn) >= 3 => fqdn[3] = fqdn[2]

(***************************************************************************)
(* C15 amended.  Sanitizing a sanitized host string changes nothing        *)
(* exactly when the sanitized string neither ends in "/" nor begins with   *)
(* "https://".  That is so for every host string made of a non-empty host  *)
(* name without "/", an optional leading "https://" and an optional single *)
(* trailing "/"; it is not so, for example, for "a//".                     *)
(***************************************************************************)
Clean(s) == ~HasSuffix(s, <<"/">>) /\ ~HasPrefix(s, HTTPS)

\* [https://] name [/], the name non-empty and free of "/"
PlainHost(s) ==
    LET a == IF HasPrefix(s, HTTPS) THEN SubSeq(s, Len(HTTPS) + 1, Len(s)) ELSE s
        h == IF HasSuffix(a, <<"/">>) THEN SubSeq(a, 1, Len(a) - 1) ELSE a
    IN  Len(h) >= 1 /\ \A i \in 1..Len(h) : h[i] # "/"

C15_IdempotentOnCleanOutput ==
    \A i \in 2..(Len(fqdn) - 1) :
        /\ fqdn[i + 1] = fqdn[i] <=> Clean(fqdn[i])
        /\ PlainHost(fqdn[1]) => fqdn[i + 1] = fqdn[i]

\* "https://a/" became "a" and stayed "a"
C15_Witness ==
    /\ Len(fqdn) = 3
    /\ fqdn[1] = HTTPS \o <<"a", "/">>
    /\ fqdn[2] = <<"a">>
    /\ fqdn[3] = <<"a">>

(***************************************************************************)
(* C16 as stated.  pceSanitization(s) is s with one trailing "/" removed   *)
(* if s ends in "/" and a leading "https://" removed if present; every     *)
(* other character, a later "https://" included, is left as it was.        *)
(***************************************************************************)
TrimOneSlash(s) ==
    IF Len(s) >= 1 /\ s[Len(s)] = "/" THEN SubSeq(s, 1, Len(s) - 1) ELSE s

TrimLeadingHTTPS(s) ==
    IF HasPrefix(s, HTTPS) THEN SubSeq(s, Len(HTTPS) + 1, Len(s)) ELSE s

C16_OnlyEndsTouched ==
    Len(fqdn) >= 2 => fqdn[2] = TrimLeadingHTTPS(TrimOneSlash(fqdn[1]))

(***************************************************************************)
(* C17.  In an async call every poll request is a GET to the API base URL  *)
(* joined with the Location header of the initial response, and the result *)
(* fetch is a GET to the API base URL joined with the result href of the   *)
(* poll answer that reported "done", which is the last poll answer.        *)
(***************************************************************************)
C17_PollAndFetchTargets ==
    \A p \in Procs :
        /\ \A i \in RequestsOf(p, "poll") :
              /\ log[p][i].method = <<"G","E","T">>
              /\ log[p][i].url = OwnJobURL(p)
              /\ env[p].first.ex = "initial"
        /\ \A i \in RequestsOf(p, "fetch") :
              /\ log[p][i].method = <<"G","E","T">>
              /\ LastPollDone(p)
              /\ pollResp[p].body.kind \in {"json", "type"}
              /\ pollResp[p].body.status = "done"
              /\ log[p][i].url = OwnResultURL(p)

\* the job at /jobs/2 said "running" or the like, then "done" with its result
\* at /results/2
C17_Witness ==
    /\ Returned(1) /\ args[1].async
    /\ args[1].httpAction = <<"P","o","s","t">>
    /\ JobLog(1, 2)
    /\ pollDone[1] = <<FALSE, TRUE>>
    /\ log[1][3].url = "https://pce.example.com:8443/api/v1/jobs/2"
    /\ log[1][5].url = "https://pce.example.com:8443/api/v1/jobs/2"
    /\ log[1][6].url = "https://pce.example.com:8443/api/v1/results/2"

(***************************************************************************)
(* C18 as stated.  The wait before a poll is the number of seconds named   *)
(* by the Retry-After header of the immediately prior response: of the     *)
(* previous poll response before every poll but the first.                 *)
(***************************************************************************)
C18_WaitOfPriorResponse ==
    \A p \in Procs :
        (pc[p] = "loop" /\ NPolls(p) >= 1 /\ Len(log'[p]) > Len(log[p])) =>
            /\ log'[p][Len(log[p]) + 1].type = "sleep"
            /\ log'[p][Len(log[p]) + 1].secs = Atoi(pollResp[p].Header.RetryAfter).val

C18_WaitsOfInitialResponse ==
    \A p \in Procs :
        /\ \A i \in RequestsOf(p, "poll") :
              /\ i > 1
              /\ log[p][i - 1] = Sleep(Atoi(env[p].first.Header.RetryAfter).val)
              /\ LooksLikeInteger(env[p].first.Header.RetryAfter)
        /\ \A i \in 1..Len(log[p]) :
              log[p][i].type = "sleep" =>
                  /\ i < Len(log[p])
                  /\ log[p][i + 1].type = "request"
                  /\ log[p][i + 1].kind = "poll"

C18_NextWaitOfInitialResponse ==
    \A p \in Procs :
        (pc[p] = "loop" /\ NPolls(p) >= 1 /\ Len(log'[p]) > Len(log[p])) =>
            log'[p][Len(log[p]) + 1] = Sleep(Atoi(env[p].first.Header.RetryAfter).val)

C19_OnlyFetchStatusCounts ==
    \A p \in Procs :
        (Started(p) /\ args[p].async) =>
            /\ err[p].kind = "http status code of" =>
                  /\ Returned(p)
                  /\ NFetches(p) = 1
                  /\ env[p].answer.ex = "fetch"
                  /\ err[p] = ErrStatus(env[p].answer.code)
                  /\ ~LeadsWith2(env[p].answer.code)
            /\ (/\ env[p].first.ex = "initial"
                /\ env[p].failed = "none"
                /\ LooksLikeInteger(env[p].first.Header.RetryAfter)) =>
                  /\ pc[p] = "loop" => err[p] = ErrNil
                  /\ NPolls(p) = 0 => pc[p] = "loop" /\ ENABLED Polling(p)
                  /\ (NPolls(p) >= 1 /\ ~LastPollDone(p)) => pc[p] = "loop"
                  /\ LastPollDone(p) => pc[p] \in {"final", "process", "returned"}
                  /\ (Returned(p) /\ LeadsWith2(env[p].answer.code)) => err[p] = ErrNil

\* the submission was answered 404, the polls 500, the result 200: no error
C19_Witness ==
    /\ Returned(1) /\ args[1].async
    /\ env[1].first.code = 404
    /\ pollResp[1].code = 500
    /\ NPolls(1) = 2
    /\ response[1].StatusCode = 200
    /\ err[1] = ErrNil

(***************************************************************************)
(* C20.  Under weak fairness a call that has been made returns, unless it  *)
(* is an async call whose job has not been reported "done" in any of the   *)
(* MaxPolls polls the model allows; in particular an async call whose job  *)
(* has been reported "done" returns.  A call does not return while its     *)
(* job is pending and nothing fails.  A returned call either returns an    *)
(* error or returns no error and the final response, never neither.        *)
(***************************************************************************)
StillPending(p) ==
    /\ pc[p] = "loop"
    /\ args[p].async
    /\ Len(pollDone[p]) = MaxPolls
    /\ ~SomePollDone(p)

ErrorReturn(p) == Returned(p) /\ err[p] # ErrNil

FinalReturn(p) ==
    /\ Returned(p)
    /\ err[p] = ErrNil
    /\ FinalObtained(p)
    /\ response[p].StatusCode = env[p].answer.code
    /\ response[p].RespBody = env[p].answer.body

C20_OneOutcome ==
    \A p \in Procs :
        /\ Returned(p) => (ErrorReturn(p) /\ ~FinalReturn(p)) \/ (FinalReturn(p) /\ ~ErrorReturn(p))
        /\ (Started(p) /\ ~Returned(p)) => err[p] = ErrNil /\ response[p] = ZeroResponse
        /\ (Returned(p) /\ args[p].async /\ env[p].failed = "none"
              /\ LooksLikeInteger(env[p].first.Header.RetryAfter)) => LastPollDone(p)

C20_Terminates ==
    /\ []C20_OneOutcome
    /\ \A p \in Procs :
          /\ Started(p) ~> (Returned(p) \/ StillPending(p))
          /\ (args[p].async /\ LastPollDone(p)) ~> Returned(p)
          /\ (/\ args[p].async
              /\ LastPollDone(p)
              /\ pc[p] = "final"
              /\ LooksLikeInteger(env[p].first.Header.RetryAfter))
                ~> (ErrorReturn(p) \/ FinalReturn(p))

\* the third poll reported "done", nothing failed, and the call returned the
\* result fetch's response without error
C20_Witness ==
    /\ args[2].async
    /\ LooksLikeInteger(env[2].first.Header.RetryAfter)
    /\ pollDone[2] = <<FALSE, FALSE, TRUE>>
    /\ env[2].failed = "none"
    /\ FinalReturn(2)
    /\ response[2].StatusCode = 200

====
